---- MODULE Spec2Model ----
(***************************************************************************)
(* A model of the AgricAgent API request pipeline:                         *)
(*   app/routes/webhook.py  the router's /chat, /identify and /webhook     *)
(*   app/main.py            the application's /chat and /identify          *)
(*   app/agent.py           handle_user_message (infer, record, send)      *)
(*   app/db.py              save_message, get_all_messages                 *)
(*   app/services/api_service.py  the client's reading of a response       *)
(*                                                                         *)
(* A text is a sequence of tokens.  A token is a single character, or a    *)
(* chunk of a literal of the source that holds none of the characters the  *)
(* code inspects (& < > " ' , . space).  Python's None is NoneV.           *)
(***************************************************************************)
EXTENDS Integers, Sequences, FiniteSets, TLC

\* ------------------------------------------------------------------ bounds

\* Longest answer text the inference service is taken to return.
MaxLen == 2
\* Most rows the messages table holds.
MaxMsgs == 2
\* Largest limit passed to get_all_messages.
MaxLimit == 3

\* ------------------------------------------------------------------- texts

NoneV == [some |-> FALSE, v |-> <<>>]
Some(t) == [some |-> TRUE, v |-> t]
\* Python's `x or d` for an optional text: None and "" are both falsy.
OrElse(x, d) == IF x.some /\ x.v # <<>> THEN x.v ELSE d

\* The characters an answer of the inference service is drawn from: the five
\* html.escape rewrites, a letter and a blank.
Chars == {"&", "<", ">", "\"", "'", "a", " "}
Texts(n) == UNION {[1..k -> Chars] : k \in 0..n}

RECURSIVE Concat(_)
Concat(ss) ==
  CHOOSE r \in {IF t = <<>> THEN <<>> ELSE Head(t) \o Concat(Tail(t))
                 : t \in {ss}} : TRUE

IsPrefix(p, s) == Len(p) <= Len(s) /\ SubSeq(s, 1, Len(p)) = p
\* Python's `k in s`.
Contains(s, k) ==
  \E i \in 0..(Len(s) - Len(k)) : SubSeq(s, i + 1, i + Len(k)) = k

UpperCase == <<"A","B","C","D","E","F","G","H","I","J","K","L","M",
               "N","O","P","Q","R","S","T","U","V","W","X","Y","Z">>
LowerCase == <<"a","b","c","d","e","f","g","h","i","j","k","l","m",
               "n","o","p","q","r","s","t","u","v","w","x","y","z">>
LowerChar(c) ==
  IF \E i \in 1..26 : UpperCase[i] = c
  THEN LowerCase[CHOOSE i \in 1..26 : UpperCase[i] = c]
  ELSE c

\* The operators below take their argument through a bound variable, so that
\* it is evaluated once however deeply the calls are nested.
\* str.lstrip(): from the first character that is not a space.
LStrip(s) ==
  LET first(t) == CHOOSE k \in 1..(Len(t) + 1) :
                    /\ k > Len(t) \/ t[k] # " "
                    /\ \A j \in 1..(k - 1) : t[j] = " "
  IN CHOOSE r \in {SubSeq(t, first(t), Len(t)) : t \in {s}} : TRUE
\* str.rstrip(): up to the last character that is not a space.
RStrip(s) ==
  LET last(t) == CHOOSE k \in 0..Len(t) :
                   /\ k = 0 \/ t[k] # " "
                   /\ \A j \in (k + 1)..Len(t) : t[j] = " "
  IN CHOOSE r \in {SubSeq(t, 1, last(t)) : t \in {s}} : TRUE
\* str.strip()
Strip(s) == RStrip(LStrip(s))
\* str.lower()
Lower(s) ==
  CHOOSE r \in {[i \in 1..Len(t) |-> LowerChar(t[i])] : t \in {s}} : TRUE

\* str.replace(ch, by) for a one-character ch.
ReplaceAll(s, ch, by) ==
  CHOOSE r \in {Concat([i \in 1..Len(t) |-> IF t[i] = ch THEN by ELSE <<t[i]>>])
                 : t \in {s}} : TRUE

Amp == <<"&", "a", "m", "p", ";">>
Lt == <<"&", "l", "t", ";">>
Gt == <<"&", "g", "t", ";">>
Quot == <<"&", "q", "u", "o", "t", ";">>
Apos == <<"&", "#", "x", "2", "7", ";">>

\* html.escape(s, quote=False): & first, then < and >.
EscapeMarkup(s) ==
  ReplaceAll(ReplaceAll(ReplaceAll(s, "&", Amp), "<", Lt), ">", Gt)
\* html.escape called with quote=False: the quote characters are kept.
HtmlEscape_QuotesKept(s) == EscapeMarkup(s)

\* html.escape(s, quote=True): the quotes after the markup characters.
HtmlEscape(s) ==
  ReplaceAll(ReplaceAll(EscapeMarkup(s), "\"", Quot), "'", Apos)

\* --------------------------------------------------------------- responses

\* An HTTP response: status, media type, the JSON object (a record whose
\* fields are the object's keys) or the XML body.
NoResp == [status |-> 0, media |-> "", json |-> <<>>, xml |-> <<>>]
JsonResp(st, obj) ==
  [status |-> st, media |-> "application/json", json |-> obj, xml |-> <<>>]
XmlResp(body) ==
  [status |-> 200, media |-> "application/xml", json |-> <<>>, xml |-> body]
\* raise HTTPException(status_code=st, detail=d)
HttpError(st, d) == JsonResp(st, [detail |-> d])
\* An exception that leaves the handler: the framework answers 500.
ServerError ==
  [status |-> 500, media |-> "text/plain", json |-> <<>>, xml |-> <<>>]

\* ------------------------------------------------- the inference service

\* What one call of the external completion service does: an answer text, a
\* response whose message content is null, a response with no choices, or an
\* exception (auth, network, provider) with its message.
Causes ==
  { <<"Connection error.">>,
    <<"Request timed out.">>,
    <<"Error code: 401 - {", "'", "error", "'", ": <", "invalid_api_key", ">}">> }
IndexErrorText == <<"list index out of range">>
Outcomes(answers) ==
  [kind : {"answer"}, text : answers]
    \cup [kind : {"null", "nochoices"}, text : {<<>>}]
    \cup [kind : {"raise"}, text : Causes]
\* Answers on the JSON channels, where the text is passed through as it is.
ShortAnswers == {<<>>, <<" ">>, <<"a", " ">>}

DisabledMessage ==
  <<"I received your message. (AI disabled - set OPENAI_API_KEY.)">>
DisabledImage ==
  <<"I received your image. (AI disabled - set OPENAI_API_KEY.)">>
AiError(cause) == <<"AI error: ">> \o cause

\* _ok_openai() that looks at the client object alone.
OkOpenai_ClientOnly(c) == TRUE

\* _ok_openai(): the client exists and the credential is set.
OkOpenai(c) == c

\* What a gateway call gives its caller: the value returned, whether an
\* exception left it instead, and whether the external service was called.
GwNone == [ret |-> NoneV, raised |-> FALSE, called |-> FALSE]
Returned(t, didcall) == [ret |-> Some(t), raised |-> FALSE, called |-> didcall]

\* The try block with no except clause: the exception leaves the gateway.
Completion_Uncaught(o) ==
  CASE o.kind = "answer" -> Returned(Strip(o.text), TRUE)
    [] o.kind = "null" -> Returned(Strip(<<>>), TRUE)
    [] OTHER -> [ret |-> NoneV, raised |-> TRUE, called |-> TRUE]

\* The try block of _ai_text_only and _ai_vision: (content or "").strip(),
\* and `except Exception as e: return f"AI error: {e}"`.
Completion(o) ==
  CASE o.kind = "answer" -> Returned(Strip(o.text), TRUE)
    [] o.kind = "null" -> Returned(Strip(<<>>), TRUE)
    [] o.kind = "nochoices" -> Returned(AiError(IndexErrorText), TRUE)
    [] o.kind = "raise" -> Returned(AiError(o.text), TRUE)

AiTextOnly(c, o) ==
  IF ~OkOpenai(c) THEN Returned(DisabledMessage, FALSE) ELSE Completion(o)

AiVision(c, o) ==
  IF ~OkOpenai(c) THEN Returned(DisabledImage, FALSE) ELSE Completion(o)

\* ------------------------------------------------------------------- state

VARIABLES
  cred,      \* OPENAI_API_KEY is set (read once, at import)
  pc,        \* where the request in progress stands
  route,     \* the handler serving it
  inp,       \* what the handler reads of its input
  prompt,    \* the instruction text built for the inference service
  gw,        \* what the gateway call gave the handler
  outcome,   \* what the external inference service did, if it was called
  reply,     \* the handler's reply text
  resp,      \* the HTTP response
  calls,     \* calls of the external inference service made by the request
  stages,    \* the pipeline stages the request has passed, in order
  messages,  \* the rows of the messages table, in the order committed
  rows0,     \* how many rows the table held when the request began
  computed,  \* the reply as it stood when inference finished
  sent,      \* the text handed to the WhatsApp sender
  savefail,  \* save_message raised in this request
  media,     \* /identify: the compressed image and its data URL
  listing,   \* what get_all_messages returned
  users,     \* the rows of the users table, in the order committed
  tasks      \* the get_or_create_user calls in progress

vars == <<cred, pc, route, inp, prompt, gw, outcome, reply, resp, calls, stages, messages,
          rows0, computed, sent, savefail, media, listing, users, tasks>>

NoInput == [none |-> TRUE]
NoSend == [some |-> FALSE, to |-> <<>>, body |-> <<>>]
NoCall == [kind |-> "nocall", text |-> <<>>]
NoMedia == [none |-> TRUE]
\* The coroutines that may be inside get_or_create_user at the same time.
Callers == {"t1", "t2", "t3"}
NoTask == [pc |-> "idle", phone |-> <<>>, user |-> NoneV]

Init ==
  /\ cred \in BOOLEAN
  /\ pc = "idle"
  /\ route = "none"
  /\ inp = NoInput
  /\ prompt = <<>>
  /\ gw = GwNone
  /\ outcome = NoCall
  /\ reply = <<>>
  /\ resp = NoResp
  /\ calls = 0
  /\ stages = <<>>
  /\ messages = <<>>
  /\ rows0 = 0
  /\ computed = NoneV
  /\ sent = NoSend
  /\ savefail = FALSE
  /\ media = NoMedia
  /\ listing = <<>>
  /\ users = <<>>
  /\ tasks = [t \in Callers |-> NoTask]

\* A handler is entered with its input.
Begin(handler, input) ==
  /\ pc = "idle"
  /\ route' = handler
  /\ inp' = input
  /\ prompt' = <<>>
  /\ gw' = GwNone
  /\ outcome' = NoCall
  /\ reply' = <<>>
  /\ resp' = NoResp
  /\ calls' = 0
  /\ stages' = <<"RECEIVED">>
  /\ rows0' = Len(messages)
  /\ computed' = NoneV
  /\ sent' = NoSend
  /\ savefail' = FALSE
  /\ media' = NoMedia
  /\ UNCHANGED <<cred, messages, listing, users, tasks>>

\* The response has gone out; the request's locals are dropped.
Finish ==
  /\ pc = "done"
  /\ pc' = "idle"
  /\ route' = "none"
  /\ inp' = NoInput
  /\ prompt' = <<>>
  /\ gw' = GwNone
  /\ outcome' = NoCall
  /\ reply' = <<>>
  /\ resp' = NoResp
  /\ calls' = 0
  /\ stages' = <<>>
  /\ rows0' = 0
  /\ computed' = NoneV
  /\ sent' = NoSend
  /\ savefail' = FALSE
  /\ media' = NoMedia
  /\ listing' = <<>>
  /\ UNCHANGED <<cred, messages, users, tasks>>

At(handler, label) == route = handler /\ pc = label

\* The stage an inference step ends in: the model's answer, or a fallback.
InferStage(g, o) ==
  IF g.called /\ o.kind \in {"answer", "null"} THEN "INFERRED" ELSE "FALLBACK"

\* ------------------------------------------- app/routes/webhook.py: /webhook

Bodies == {<<>>, <<"c", "h", "e", "c", "k", " ", "s", "o", "i", "l">>}
NumMedias == {<<>>, <<"0">>, <<"1">>}
MediaUrls == {NoneV, Some(<<>>), Some(<<"https://api.twilio.com/media/ME1">>)}
Senders == {<<>>, <<"whatsapp:+15550100">>}
MediaTypes == {NoneV, Some(<<"image/jpeg">>)}

\* Lines 215-218: the prompt names the image URL when media is announced.
WebhookPromptText(body, nummedia, url) ==
  IF (nummedia # <<>> /\ nummedia # <<"0">>) \/ (url.some /\ url.v # <<>>)
  THEN <<"Farmer says: ">> \o (IF body # <<>> THEN body ELSE <<"(no text)">>)
         \o <<"\nThey also sent an image: ">>
         \o OrElse(url, <<"(unavailable)">>)
  ELSE <<"Farmer says: ">> \o (IF body # <<>> THEN body ELSE <<"(no text)">>)

XmlHead ==
  <<"<", "?xml version=", "\"", "1.0", "\"", " encoding=", "\"", "UTF-8",
    "\"", "?", ">", "<", "Response", ">", "<", "Message", ">">>
XmlTail == <<"<", "/Message", ">", "<", "/Response", ">">>
\* twiml_reply: the reply escaped, inside the fixed envelope.
TwimlReply(text) == XmlResp(XmlHead \o HtmlEscape(text) \o XmlTail)

\* whatsapp_webhook is entered with the form fields; From and
\* MediaContentType0 are read by no statement that follows the print.
WebhookReceive ==
  /\ pc = "idle"
  /\ \E from \in Senders, body \in Bodies, nummedia \in NumMedias,
     url \in MediaUrls, mct \in MediaTypes :
    /\ Begin("webhook", [Body |-> body, NumMedia |-> nummedia, MediaUrl0 |-> url])
    /\ pc' = "prompt"

WebhookPrompt ==
  /\ At("webhook", "prompt")
  /\ prompt' = WebhookPromptText(inp.Body, inp.NumMedia, inp.MediaUrl0)
  /\ stages' = stages \o <<"SKIPPED", "PASSTHROUGH", "PROMPT_BUILT">>
  /\ pc' = "infer"
  /\ UNCHANGED <<cred, route, inp, gw, outcome, reply, resp, calls, messages,
                 rows0, computed, sent, savefail, media, listing, users, tasks>>

\* A gateway that makes a second attempt when the first one fails.
GatewayStep_Retry(g, o, next) ==
  /\ outcome' = IF OkOpenai(cred) THEN o ELSE NoCall
  /\ gw' = g
  /\ calls' = calls + (IF ~g.called THEN 0 ELSE IF o.kind = "answer" THEN 1 ELSE 2)
  /\ reply' = g.ret.v
  /\ computed' = g.ret
  /\ resp' = resp
  /\ stages' = stages \o <<InferStage(g, o)>>
  /\ pc' = next

\* A gateway call returns to its handler, or its exception leaves the handler.
GatewayStep(g, o, next) ==
  /\ outcome' = IF OkOpenai(cred) THEN o ELSE NoCall
  /\ gw' = g
  /\ calls' = calls + (IF g.called THEN 1 ELSE 0)
  /\ IF g.raised
     THEN /\ resp' = ServerError
          /\ reply' = reply
          /\ computed' = computed
          /\ stages' = stages \o <<"RENDERED">>
          /\ pc' = "done"
     ELSE /\ reply' = g.ret.v
          /\ computed' = g.ret
          /\ resp' = resp
          /\ stages' = stages \o <<InferStage(g, o)>>
          /\ pc' = next

WebhookInfer ==
  /\ At("webhook", "infer")
  /\ \E o \in Outcomes(Texts(MaxLen)) :
       GatewayStep(AiTextOnly(cred, o), o, "render")
  /\ UNCHANGED <<cred, route, inp, prompt, messages, rows0, sent, savefail,
                 media, listing, users, tasks>>

WebhookRender ==
  /\ At("webhook", "render")
  /\ resp' = TwimlReply(reply)
  /\ stages' = stages \o <<"RENDERED">>
  /\ pc' = "done"
  /\ UNCHANGED <<cred, route, inp, prompt, gw, outcome, reply, calls, messages,
                 rows0, computed, sent, savefail, media, listing, users, tasks>>

\* --------------------------------------------- app/routes/webhook.py: /chat

\* A value of the JSON payload: absent or null, a string, or a number.
Absent == [kind |-> "none", v |-> <<>>]
Str(t) == [kind |-> "str", v |-> t]
Num == [kind |-> "num", v |-> <<>>]
PayloadValues == {Absent, Str(<<>>), Str(<<" ", "h", "i">>), Num}
Truthy(x) == x.kind = "num" \/ (x.kind = "str" /\ x.v # <<>>)
\* payload.get("text") or payload.get("message") or ""
ChatField(text, message) ==
  IF Truthy(text) THEN text ELSE IF Truthy(message) THEN message ELSE Str(<<>>)

RChatReceive ==
  /\ pc = "idle"
  /\ \E text \in PayloadValues, message \in PayloadValues :
    /\ Begin("r_chat", [field |-> ChatField(text, message)])
    /\ pc' = "text"

\* Line 143: .strip() of the chosen value; a number has no strip().
RChatText ==
  /\ At("r_chat", "text")
  /\ IF inp.field.kind = "str"
     THEN /\ prompt' = <<"Farmer says: ">> \o Strip(inp.field.v)
          /\ stages' = stages \o <<"SKIPPED", "PASSTHROUGH", "PROMPT_BUILT">>
          /\ resp' = resp
          /\ pc' = "infer"
     ELSE /\ prompt' = prompt
          /\ stages' = stages \o <<"RENDERED">>
          /\ resp' = ServerError
          /\ pc' = "done"
  /\ UNCHANGED <<cred, route, inp, gw, outcome, reply, calls, messages, rows0,
                 computed, sent, savefail, media, listing, users, tasks>>

RChatInfer ==
  /\ At("r_chat", "infer")
  /\ \E o \in Outcomes(ShortAnswers) :
       GatewayStep(AiTextOnly(cred, o), o, "render")
  /\ UNCHANGED <<cred, route, inp, prompt, messages, rows0, sent, savefail,
                 media, listing, users, tasks>>

RChatRender ==
  /\ At("r_chat", "render")
  /\ resp' = JsonResp(200, [reply |-> reply])
  /\ stages' = stages \o <<"RENDERED">>
  /\ pc' = "done"
  /\ UNCHANGED <<cred, route, inp, prompt, gw, outcome, reply, calls, messages,
                 rows0, computed, sent, savefail, media, listing, users, tasks>>

\* ----------------------------------------- app/routes/webhook.py: /identify

ImagePrefix == <<"i", "m", "a", "g", "e", "/">>
ImageJpeg == ImagePrefix \o <<"j", "p", "e", "g">>
ImagePng == ImagePrefix \o <<"p", "n", "g">>
TextPlain == <<"t", "e", "x", "t", "/", "p", "l", "a", "i", "n">>

\* The index of the last "." of s, 0 when it has none.
LastDot(s) ==
  IF \E i \in 1..Len(s) : s[i] = "."
  THEN CHOOSE i \in 1..Len(s) : s[i] = "." /\ \A j \in (i + 1)..Len(s) : s[j] # "."
  ELSE 0
\* os.path.splitext(name)[1]: from the last dot, unless the name starts there.
Extension(s) ==
  CHOOSE r \in {IF LastDot(t) > 1 THEN SubSeq(t, LastDot(t), Len(t)) ELSE <<>>
                 : t \in {s}} : TRUE
\* mimetypes.guess_type(name)[0]: by the extension, whatever its case.
GuessType(s) ==
  LET byExtension(e) ==
        CASE e = <<".", "p", "n", "g">> -> Some(ImagePng)
          [] e \in {<<".", "j", "p", "g">>, <<".", "j", "p", "e", "g">>} ->
               Some(ImageJpeg)
          [] e = <<".", "t", "x", "t">> -> Some(TextPlain)
          [] OTHER -> NoneV
  IN CHOOSE r \in {byExtension(e) : e \in {Lower(Extension(s))}} : TRUE

\* The upload limit of /identify, in bytes.
MaxUploadBytes == 20 * 1024 * 1024
\* The longest side _compress_image_bytes leaves, in pixels.
MaxSide == 1600

NoImg == [ok |-> FALSE, w |-> 0, h |-> 0]
Img(w, h) == [ok |-> TRUE, w |-> w, h |-> h]
\* A byte buffer: its length, and the image it decodes to, if any.
Images == {NoImg, Img(800, 600), Img(4000, 3000), Img(1, 4000)}
Datas ==
  {[len |-> 0, img |-> NoImg]}
    \cup [len : {1024, MaxUploadBytes, MaxUploadBytes + 1}, img : Images]
ContentTypes ==
  {NoneV, Some(ImagePng), Some(<<" ", "I", "M", "A", "G", "E", "/", "p", "n", "g">>),
   Some(TextPlain)}
Filenames ==
  {NoneV, Some(<<"l", "e", "a", "f", ".", "P", "N", "G">>),
   Some(<<"c", "o", "w", ".", "t", "x", "t">>)}
Uploads == [content_type : ContentTypes, filename : Filenames, data : Datas]
NoUpload == [some |-> FALSE]
Given(u) == [some |-> TRUE, u |-> u]
Contexts == {NoneV, Some(<<"maize, wet season">>)}

Max(a, b) == IF a >= b THEN a ELSE b

\* _compress_image_bytes without the test of line 43: every decoded image is
\* scaled so that its longest side is max_side.
CompressImageBytes_ScaleAlways(raw, pil, max_side, n) ==
  LET orig == [bytes |-> raw, ct |-> ImageJpeg, reencoded |-> FALSE]
      w == raw.img.w
      h == raw.img.h
      longest == Max(w, h)
      nw == (w * max_side) \div longest
      nh == (h * max_side) \div longest
  IN IF ~pil \/ ~raw.img.ok \/ nw = 0 \/ nh = 0 THEN orig
     ELSE [bytes |-> [len |-> n, img |-> Img(nw, nh)], ct |-> ImageJpeg,
           reencoded |-> TRUE]

\* _compress_image_bytes(img_bytes, max_side): the bytes returned, the content
\* type, and whether the image was re-encoded.  n is the length of the JPEG
\* the encoder writes.  int(w * scale) is taken as the exact quotient rounded
\* down; resize() raises for a side of 0, and every exception returns the
\* bytes as they came.
CompressImageBytes(raw, pil, max_side, n) ==
  LET orig == [bytes |-> raw, ct |-> ImageJpeg, reencoded |-> FALSE]
      w == raw.img.w
      h == raw.img.h
      longest == Max(w, h)
      nw == (w * max_side) \div longest
      nh == (h * max_side) \div longest
      jpeg(a, b) ==
        [bytes |-> [len |-> n, img |-> Img(a, b)], ct |-> ImageJpeg,
         reencoded |-> TRUE]
  IN IF ~pil \/ ~raw.img.ok THEN orig
     ELSE IF longest > max_side
          THEN IF nw = 0 \/ nh = 0 THEN orig ELSE jpeg(nw, nh)
          ELSE jpeg(w, h)

\* _b64_data_url: the header of the data URL and the bytes it encodes.
B64DataUrl(bytes, content_type) ==
  LET ct0 == Strip(Lower(OrElse(content_type, ImageJpeg)))
      ct == IF IsPrefix(ImagePrefix, ct0) THEN ct0 ELSE ImageJpeg
  IN [header |-> <<"d", "a", "t", "a", ":">> \o ct \o <<";base64,">>,
      b64 |-> bytes]

\* _structured_prompt(filename, context)
StructuredPrompt(filename, context) ==
  <<"You are AgriAgent ... Filename: ">> \o OrElse(filename, <<"(unknown)">>)
    \o <<"\nFarmer context (may be empty): ">> \o OrElse(context, <<"(none)">>)
    \o <<"\n\nReturn the answer in exactly this format ...">>

\* upload = file or image
FileOrImage(file, image) == IF file.some THEN file ELSE image

\* The multipart fields file and image: neither, one of them, or both.
UploadFields ==
  {<<NoUpload, NoUpload>>}
    \cup {<<Given(u), NoUpload>> : u \in Uploads}
    \cup {<<NoUpload, Given(u)>> : u \in Uploads}
    \cup {<<Given(u), Given(v)>> : u \in Uploads,
           v \in {x \in Uploads : x.filename = NoneV /\ x.data.len = 0}}

IdentifyReceive ==
  /\ pc = "idle"
  /\ \E f \in UploadFields, context \in Contexts :
    /\ Begin("r_identify", [upload |-> FileOrImage(f[1], f[2]), context |-> context])
    /\ pc' = "normalize"

\* The checks of the upload without the type test of lines 174-177.
IdentifyCheck_AnyType(upload) ==
  IF ~upload.some
  THEN [ok |-> FALSE, err |-> HttpError(400, <<"No image found.">>)]
  ELSE
    LET u == upload.u
        ct == Strip(Lower(OrElse(u.content_type, <<>>)))
        guessed == GuessType(OrElse(u.filename, <<>>))
    IN IF u.data.len = 0
       THEN [ok |-> FALSE, err |-> HttpError(400, <<"Uploaded image was empty.">>)]
       ELSE IF u.data.len > MaxUploadBytes
       THEN [ok |-> FALSE, err |-> HttpError(413, <<"Image too large (max ~20MB).">>)]
       ELSE [ok |-> TRUE,
             ct |-> IF IsPrefix(ImagePrefix, ct) THEN ct ELSE OrElse(guessed, ct)]

\* Lines 170-184: the checks of the upload, in the order the code makes them.
\* The result is the error raised, or the content type accepted.
IdentifyCheck(upload) ==
  IF ~upload.some
  THEN [ok |-> FALSE, err |-> HttpError(400, <<"No image found.">>)]
  ELSE
    LET u == upload.u
        ct == Strip(Lower(OrElse(u.content_type, <<>>)))
        guessed == GuessType(OrElse(u.filename, <<>>))
        bad == HttpError(400, <<"Invalid image type: ">>
                                \o (IF ct # <<>> THEN ct ELSE <<"unknown">>))
    IN IF ~IsPrefix(ImagePrefix, ct) /\ ~IsPrefix(ImagePrefix, OrElse(guessed, <<>>))
       THEN [ok |-> FALSE, err |-> bad]
       ELSE IF u.data.len = 0
       THEN [ok |-> FALSE, err |-> HttpError(400, <<"Uploaded image was empty.">>)]
       ELSE IF u.data.len > MaxUploadBytes
       THEN [ok |-> FALSE, err |-> HttpError(413, <<"Image too large (max ~20MB).">>)]
       ELSE [ok |-> TRUE,
             ct |-> IF IsPrefix(ImagePrefix, ct) THEN ct ELSE guessed.v]

IdentifyNormalize ==
  /\ At("r_identify", "normalize")
  /\ LET c == IdentifyCheck(inp.upload) IN
     IF c.ok
     THEN /\ media' = [content_type |-> c.ct, raw |-> inp.upload.u.data]
          /\ stages' = stages \o <<"MEDIA_NORMALIZED">>
          /\ resp' = resp
          /\ pc' = "compress"
     ELSE /\ media' = media
          /\ stages' = stages \o <<"RENDERED">>
          /\ resp' = c.err
          /\ pc' = "done"
  /\ UNCHANGED <<cred, route, inp, prompt, gw, outcome, reply, calls, messages,
                 rows0, computed, sent, savefail, listing, users, tasks>>

\* Line 187; whether Pillow was importable is fixed when the module loads.
IdentifyCompress ==
  /\ At("r_identify", "compress")
  /\ \E pil \in BOOLEAN, n \in {1024, 4096} :
       LET c == CompressImageBytes(media.raw, pil, MaxSide, n) IN
       /\ media' = [content_type |-> media.content_type, raw |-> media.raw,
                    comp_bytes |-> c.bytes, comp_ct |-> c.ct]
       /\ stages' = stages \o <<IF c.reencoded THEN "COMPRESSED" ELSE "PASSTHROUGH">>
  /\ pc' = "prompt"
  /\ UNCHANGED <<cred, route, inp, prompt, gw, outcome, reply, resp, calls,
                 messages, rows0, computed, sent, savefail, listing, users, tasks>>

\* Lines 189-190.
IdentifyPrompt ==
  /\ At("r_identify", "prompt")
  /\ media' = [content_type |-> media.content_type, raw |-> media.raw,
               comp_bytes |-> media.comp_bytes, comp_ct |-> media.comp_ct,
               data_url |-> B64DataUrl(media.comp_bytes, Some(media.comp_ct))]
  /\ prompt' = StructuredPrompt(Some(OrElse(inp.upload.u.filename,
                                           <<"i", "m", "a", "g", "e">>)),
                                inp.context)
  /\ stages' = stages \o <<"PROMPT_BUILT">>
  /\ pc' = "infer"
  /\ UNCHANGED <<cred, route, inp, gw, outcome, reply, resp, calls, messages,
                 rows0, computed, sent, savefail, listing, users, tasks>>

IdentifyInfer ==
  /\ At("r_identify", "infer")
  /\ \E o \in Outcomes(ShortAnswers) :
       GatewayStep(AiVision(cred, o), o, "render")
  /\ UNCHANGED <<cred, route, inp, prompt, messages, rows0, sent, savefail,
                 media, listing, users, tasks>>

\* Line 194.
IdentifyRender ==
  /\ At("r_identify", "render")
  /\ resp' = JsonResp(200, [filename |-> inp.upload.u.filename,
                            reply |-> reply, ok |-> TRUE])
  /\ stages' = stages \o <<"RENDERED">>
  /\ pc' = "done"
  /\ UNCHANGED <<cred, route, inp, prompt, gw, outcome, reply, calls, messages,
                 rows0, computed, sent, savefail, media, listing, users, tasks>>

\* ------------------------------------------------------ app/main.py: /chat

Mushroom == <<"m", "u", "s", "h", "r", "o", "o", "m">>
Yellow == <<"y", "e", "l", "l", "o", "w">>
Leaf == <<"l", "e", "a", "f">>
ChatMessages ==
  { <<>>,
    <<"h", "i">>,
    <<"M", "u", "s", "h", "r", "o", "o", "m", " ", "l", "e", "a", "f">>,
    <<"Y", "E", "L", "L", "O", "W", "s">>,
    <<"a", " ", "L", "e", "a", "f">> }

MushroomGuide ==
  <<"<", "b", ">", "How to Plant Mushrooms", "<", "/b", ">", "<", "br", ">",
    "1 Obtain mushroom spores or spawn ... prevent mold.">>
YellowGuide ==
  <<"<", "b", ">", "Yellow Leaves Causes", "<", "/b", ">", "<", "br", ">",
    "Nitrogen deficiency", "<", "br", ">",
    "Overwatering or poor drainage", "<", "br", ">",
    "Pests (aphids, leaf miners)", "<", "br", ">",
    "Solutions: ... treat organically.">>
\* Lines 87-91: the reply when no keyword matched and no answer was obtained.
GenericReply(message) ==
  <<"You said: ">> \o message
    \o <<"<", "br", ">", "I", "'", "m here to help with all crops, ...">>

\* The keyword routes with the two tests in the other order.
KeywordReply_LeafFirst(message) ==
  LET msg == Lower(message) IN
  IF Contains(msg, Yellow) \/ Contains(msg, Leaf) THEN Some(YellowGuide)
  ELSE IF Contains(msg, Mushroom) THEN Some(MushroomGuide)
  ELSE NoneV

\* Lines 42-62: the keyword routes, over the lower-cased message.
KeywordReply(message) ==
  LET msg == Lower(message) IN
  IF Contains(msg, Mushroom) THEN Some(MushroomGuide)
  ELSE IF Contains(msg, Yellow) \/ Contains(msg, Leaf) THEN Some(YellowGuide)
  ELSE NoneV

\* Lines 67-85 and 138-163 of main.py: content.strip() of the first choice;
\* every exception is printed and the handler falls through.
MainCompletion(o) ==
  IF o.kind = "answer"
  THEN [ret |-> Some(Strip(o.text)), raised |-> FALSE, called |-> TRUE]
  ELSE [ret |-> NoneV, raised |-> FALSE, called |-> TRUE]

MChatReceive ==
  /\ pc = "idle"
  /\ \E message \in ChatMessages :
    /\ Begin("m_chat", [message |-> message])
    /\ pc' = "route"

\* A keyword answers at once; otherwise the client is tried when there is one.
MChatRoute ==
  /\ At("m_chat", "route")
  /\ LET k == KeywordReply(inp.message) IN
     IF k.some
     THEN /\ reply' = k.v
          /\ resp' = JsonResp(200, [reply |-> k.v])
          /\ pc' = "done"
     ELSE IF cred
     THEN /\ reply' = reply
          /\ resp' = resp
          /\ pc' = "infer"
     ELSE /\ reply' = GenericReply(inp.message)
          /\ resp' = JsonResp(200, [reply |-> GenericReply(inp.message)])
          /\ pc' = "done"
  /\ UNCHANGED <<cred, route, inp, prompt, gw, outcome, calls, stages,
                 messages, rows0, computed, sent, savefail, media, listing, users, tasks>>

MChatInfer ==
  /\ At("m_chat", "infer")
  /\ \E o \in Outcomes(ShortAnswers) :
       LET g == MainCompletion(o)
           r == IF g.ret.some THEN g.ret.v ELSE GenericReply(inp.message)
       IN /\ gw' = g
          /\ outcome' = o
          /\ reply' = r
          /\ resp' = JsonResp(200, [reply |-> r])
  /\ calls' = calls + 1
  /\ pc' = "done"
  /\ UNCHANGED <<cred, route, inp, prompt, stages, messages, rows0, computed,
                 sent, savefail, media, listing, users, tasks>>

\* -------------------------------------------------- app/main.py: /identify

\* The form field image_b64 as split(",") sees it: its pieces, the last one
\* being what base64.b64decode is given (bytes, or a padding error).
B64Piece(valid, bytes) == [valid |-> valid, bytes |-> bytes]
SmallPng == [len |-> 1024, img |-> Img(800, 600)]
HugeJpeg == [len |-> MaxUploadBytes + 1, img |-> Img(4000, 3000)]
HeaderPiece == B64Piece(FALSE, [len |-> 0, img |-> NoImg])
NoB64 == [some |-> FALSE, pieces |-> <<>>]
B64Fields ==
  { NoB64,
    [some |-> TRUE, pieces |-> <<>>],
    [some |-> TRUE, pieces |-> <<HeaderPiece, B64Piece(TRUE, SmallPng)>>],
    [some |-> TRUE, pieces |-> <<B64Piece(TRUE, HugeJpeg)>>],
    [some |-> TRUE, pieces |-> <<B64Piece(FALSE, SmallPng)>>] }
\* What main.py reads of an upload: its filename and its bytes.
MainFiles == [filename : Filenames, data : Datas]

\* _simple_label(filename)
SimpleLabel(filename) ==
  LET name == Lower(OrElse(filename, <<>>)) IN
  IF Contains(name, Leaf) \/ Contains(name, <<"p", "l", "a", "n", "t">>)
  THEN <<"<", "b", ">", "Plant Leaf", "<", "/b", ">", "<", "br", ">",
         "Detected a leaf. Possible nutrient stress or pest issue.">>
  ELSE IF Contains(name, <<"c", "o", "w">>)
  THEN <<"<", "b", ">", "Cow", "<", "/b", ">", "<", "br", ">",
         "Detected a cow - check feed, water, and signs of illness.">>
  ELSE IF Contains(name, <<"g", "o", "a", "t">>)
  THEN <<"<", "b", ">", "Goat", "<", "/b", ">", "<", "br", ">",
         "Detected a goat - appears healthy.">>
  ELSE IF Contains(name, <<"f", "i", "s", "h">>)
  THEN <<"<", "b", ">", "Fish", "<", "/b", ">", "<", "br", ">",
         "Detected a fish - monitor water quality.">>
  ELSE <<"<", "b", ">", "Unknown", "<", "/b", ">", "<", "br", ">",
         "Could not identify clearly - ensure good lighting and focus.">>

\* Line 166: file.filename if file else "image.jpg"
LabelName(input) ==
  IF input.file.some THEN input.file.u.filename
  ELSE Some(<<"i", "m", "a", "g", "e", ".", "j", "p", "g">>)

\* Lines 170-171: whatever is raised inside the try, the HTTPException of
\* line 132 included, is answered 500.
ProcessingFailed(cause) == HttpError(500, <<"Image processing failed: ">> \o cause)

\* Lines 119-132: the temporary file written, or the exception raised.
MainStore(input) ==
  IF input.file.some
  THEN [ok |-> TRUE, bytes |-> input.file.u.data]
  ELSE IF input.image_b64.some /\ input.image_b64.pieces # <<>>
  THEN LET last == input.image_b64.pieces[Len(input.image_b64.pieces)] IN
       IF last.valid
       THEN [ok |-> TRUE, bytes |-> last.bytes]
       ELSE [ok |-> FALSE, err |-> ProcessingFailed(<<"Incorrect padding">>)]
  ELSE [ok |-> FALSE, err |-> ProcessingFailed(<<"400: No image provided">>)]

MIdentifyReceive ==
  /\ pc = "idle"
  /\ \E file \in {NoUpload} \cup {Given(u) : u \in MainFiles}, b \in B64Fields :
    /\ file.some => b = NoB64
    /\ Begin("m_identify", [file |-> file, image_b64 |-> b])
    /\ pc' = "store"

MIdentifyStore ==
  /\ At("m_identify", "store")
  /\ LET st == MainStore(inp) IN
     IF ~st.ok
     THEN /\ resp' = st.err
          /\ media' = media
          /\ reply' = reply
          /\ pc' = "done"
     ELSE IF cred
     THEN /\ resp' = resp
          /\ media' = [tmp |-> st.bytes]
          /\ reply' = reply
          /\ pc' = "infer"
     ELSE /\ resp' = JsonResp(200, [ok |-> TRUE,
                                    details |-> SimpleLabel(LabelName(inp))])
          /\ media' = [tmp |-> st.bytes]
          /\ reply' = SimpleLabel(LabelName(inp))
          /\ pc' = "done"
  /\ UNCHANGED <<cred, route, inp, prompt, gw, outcome, calls, stages,
                 messages, rows0, computed, sent, savefail, listing, users, tasks>>

MIdentifyInfer ==
  /\ At("m_identify", "infer")
  /\ \E o \in Outcomes(ShortAnswers) :
       LET g == MainCompletion(o)
           r == IF g.ret.some THEN g.ret.v ELSE SimpleLabel(LabelName(inp))
       IN /\ gw' = g
          /\ outcome' = o
          /\ reply' = r
          /\ resp' = JsonResp(200, [ok |-> TRUE, details |-> r])
  /\ calls' = calls + 1
  /\ pc' = "done"
  /\ UNCHANGED <<cred, route, inp, prompt, stages, messages, rows0, computed,
                 sent, savefail, media, listing, users, tasks>>

\* -------------------------------------------- app/services/api_service.py

\* ApiService.send_image: the reply field of a 200 response, with its
\* default; any other status is reported as a server error.
SendImage(r) ==
  IF r.status = 200
  THEN IF "reply" \in DOMAIN r.json THEN r.json.reply
       ELSE <<"No analysis result.">>
  ELSE <<"Server error: ", ToString(r.status)>>

\* --------------------------------------------------------------- app/db.py

Range(f) == {f[i] : i \in DOMAIN f}

\* The id the store gives a new row: one more than the largest in the table.
NextId(rows) ==
  IF rows = <<>> THEN 1
  ELSE 1 + (CHOOSE m \in {r.id : r \in Range(rows)} :
              \A r \in Range(rows) : r.id <= m)

\* save_message that merges into the newest row instead of adding one.
SaveMessage_Merge(rows, user_id, role, text) ==
  IF rows = <<>>
  THEN <<[id |-> 1, user_id |-> user_id, role |-> role, text |-> text]>>
  ELSE [rows EXCEPT ![Len(rows)] =
          [id |-> rows[Len(rows)].id, user_id |-> user_id, role |-> role,
           text |-> text]]

\* save_message: one row added and committed.
SaveMessage(rows, user_id, role, text) ==
  Append(rows, [id |-> NextId(rows), user_id |-> user_id, role |-> role,
                text |-> text])

\* ORDER BY id DESC, of a set of rows
RECURSIVE OrderByIdDesc(_)
OrderByIdDesc(rows) ==
  IF rows = {} THEN <<>>
  ELSE LET top == CHOOSE r \in rows : \A q \in rows : q.id <= r.id
       IN <<top>> \o OrderByIdDesc(rows \ {top})

\* LIMIT n
Limit(rs, n) == SubSeq(rs, 1, IF n < Len(rs) THEN n ELSE Len(rs))

\* get_all_messages without its ORDER BY: the rows as the table holds them.
GetAllMessages_Unordered(rows, limit) == Limit(rows, limit)

\* get_all_messages(limit)
GetAllMessages(rows, limit) == Limit(OrderByIdDesc(Range(rows)), limit)

\* save_message called on its own.
SaveMessageCall ==
  /\ pc = "idle"
  /\ \E text \in {<<"h", "i">>} :
    /\ pc = "idle"
    /\ Len(messages) < MaxMsgs
    /\ route' = "save"
    /\ inp' = [user_id |-> 1, role |-> "user", text |-> text]
    /\ messages' = SaveMessage(messages, 1, "user", text)
    /\ pc' = "done"
    /\ UNCHANGED <<cred, prompt, gw, outcome, reply, resp, calls, stages,
                   rows0, computed, sent, savefail, media, listing, users, tasks>>

\* get_all_messages called on its own.
GetAllMessagesCall ==
  /\ pc = "idle"
  /\ \E limit \in 0..MaxLimit :
    /\ pc = "idle"
    /\ route' = "list"
    /\ inp' = [limit |-> limit]
    /\ listing' = GetAllMessages(messages, limit)
    /\ pc' = "done"
    /\ UNCHANGED <<cred, prompt, gw, outcome, reply, resp, calls, stages,
                   messages, rows0, computed, sent, savefail, media, users, tasks>>

\* ------------------------------------------------------------ app/agent.py

Apology ==
  <<"Sorry, I couldn", "'", "t process your request right now.">>
Users == {[id |-> 1, phone |-> <<"+", "15550100">>]}
AgentTexts == {<<"my maize has spots">>}
AgentAnswers == {<<>>, <<"a">>}

\* call_openai_system: the content of the first choice, or None after the
\* exception is printed.  It reads no flag before it posts; without a
\* credential the service refuses the request.
CallOpenaiSystem(o) ==
  CASE o.kind = "answer" -> [ret |-> Some(o.text), raised |-> FALSE, called |-> TRUE]
    [] OTHER -> [ret |-> NoneV, raised |-> FALSE, called |-> TRUE]
AgentOutcomes(c) ==
  IF c THEN Outcomes(AgentAnswers)
  ELSE {o \in Outcomes(AgentAnswers) : o.kind = "raise"}

\* Lines 96-102: `if not ai_reply`, and the except branch, give the apology.
AiReply(g) ==
  IF g.raised \/ ~g.ret.some \/ g.ret.v = <<>> THEN Apology ELSE g.ret.v

\* An except branch that falls back to the apology, as lines 100-102 do.
AfterSaveError_Apology(ai_reply) == Apology

\* Lines 107-108: the storage error is printed; ai_reply is not assigned.
AfterSaveError(ai_reply) == ai_reply

\* format_whatsapp_number
FormatWhatsappNumber(number) ==
  LET n == Strip(number) IN
  IF IsPrefix(<<"whatsapp:">>, n) THEN n
  ELSE <<"whatsapp:">> \o (IF IsPrefix(<<"+">>, n) THEN n ELSE <<"+">> \o n)

AgentReceive ==
  /\ pc = "idle"
  /\ \E user \in Users, text \in AgentTexts :
    /\ Len(messages) < MaxMsgs
    /\ Begin("agent", [user |-> user, text |-> text])
    /\ pc' = "infer"

\* Line 97: the prompt is built inside call_openai_system, then posted.
AgentInfer ==
  /\ At("agent", "infer")
  /\ \E o \in AgentOutcomes(cred) :
       LET g == CallOpenaiSystem(o) IN
       /\ gw' = g
       /\ outcome' = o
       /\ reply' = AiReply(g)
       /\ computed' = Some(AiReply(g))
       /\ stages' = stages \o <<"SKIPPED", "PASSTHROUGH", "PROMPT_BUILT",
                                InferStage(g, o)>>
  /\ prompt' = <<"User says: ">> \o inp.text \o <<"\nProvide: ...">>
  /\ calls' = calls + 1
  /\ pc' = "save"
  /\ UNCHANGED <<cred, route, inp, resp, messages, rows0, sent, savefail,
                 media, listing, users, tasks>>

\* Lines 105-108: the row is written, or save_message raises.
AgentSave ==
  /\ At("agent", "save")
  /\ \/ /\ messages' = SaveMessage(messages, inp.user.id, "agent", reply)
        /\ stages' = stages \o <<"RECORDED">>
        /\ UNCHANGED <<reply, savefail, users, tasks>>
     \/ /\ savefail' = TRUE
        /\ reply' = AfterSaveError(reply)
        /\ UNCHANGED <<messages, stages, users, tasks>>
  /\ pc' = "send"
  /\ UNCHANGED <<cred, route, inp, prompt, gw, outcome, resp, calls, rows0,
                 computed, sent, media, listing, users, tasks>>

\* The send without its try/except: a delivery failure leaves the handler.
AgentSend_Uncaught ==
  /\ At("agent", "send")
  /\ \/ /\ sent' = [some |-> TRUE, to |-> FormatWhatsappNumber(inp.user.phone),
                    body |-> reply]
        /\ stages' = stages \o <<"RENDERED">>
        /\ pc' = "return"
        /\ resp' = resp
     \/ /\ resp' = ServerError
        /\ pc' = "done"
        /\ UNCHANGED <<sent, stages, users, tasks>>
  /\ UNCHANGED <<cred, route, inp, prompt, gw, outcome, reply, calls,
                 messages, rows0, computed, savefail, media, listing, users, tasks>>

\* Lines 111-114: send_whatsapp_sync delivers, or prints its own failure.
AgentSend ==
  /\ At("agent", "send")
  /\ \/ /\ sent' = [some |-> TRUE, to |-> FormatWhatsappNumber(inp.user.phone),
                    body |-> reply]
        /\ stages' = stages \o <<"RENDERED">>
     \/ UNCHANGED <<sent, stages, users, tasks>>
  /\ pc' = "return"
  /\ UNCHANGED <<cred, route, inp, prompt, gw, outcome, reply, resp, calls,
                 messages, rows0, computed, savefail, media, listing, users, tasks>>

\* Line 116: return ai_reply.
AgentReturn ==
  /\ At("agent", "return")
  /\ resp' = [status |-> 0, media |-> "return", json |-> [value |-> reply],
              xml |-> <<>>]
  /\ stages' = IF sent.some THEN stages ELSE stages \o <<"RENDERED">>
  /\ pc' = "done"
  /\ UNCHANGED <<cred, route, inp, prompt, gw, outcome, reply, calls,
                 messages, rows0, computed, sent, savefail, media, listing, users, tasks>>

\* ------------------------------------------------- the recorder's category

\* The keywords of the category policy.
Soil == <<"s", "o", "i", "l">>
Animal == <<"a", "n", "i", "m", "a", "l">>
Livestock == <<"l", "i", "v", "e", "s", "t", "o", "c", "k">>
Insect == <<"i", "n", "s", "e", "c", "t">>
Pest == <<"p", "e", "s", "t">>
\* The ordered table of (keywords, category): an earlier row wins.
CategoryTable ==
  << [keywords |-> {Soil}, category |-> "soil"],
     [keywords |-> {Animal, Livestock}, category |-> "animal"],
     [keywords |-> {Insect, Pest}, category |-> "insect"] >>
DefaultCategory == "unknown"

\* The same policy matching the body as written, without lowering it.
InferCategory_CaseSensitive(body) ==
  LET hits == {i \in 1..Len(CategoryTable) :
                 \E k \in CategoryTable[i].keywords : Contains(body, k)}
  IN IF hits = {} THEN DefaultCategory
     ELSE CategoryTable[CHOOSE i \in hits : \A j \in hits : i <= j].category

\* The category of a message body: the first row of the table one of whose
\* keywords occurs in the lower-cased body, the default when none does.
InferCategory(body) ==
  LET hits == {i \in 1..Len(CategoryTable) :
                 \E t \in {Lower(body)} :
                   \E k \in CategoryTable[i].keywords : Contains(t, k)}
  IN IF hits = {} THEN DefaultCategory
     ELSE CategoryTable[CHOOSE i \in hits : \A j \in hits : i <= j].category

\* Words of a body, in several casings; some hold no keyword.
CategoryWords ==
  { Soil, <<"S", "O", "I", "L">>, <<"S", "o", "i", "l", "s">>,
    Pest, <<"P", "e", "S", "t">>,
    Insect, <<"I", "N", "S", "E", "C", "T">>,
    Animal, <<"A", "n", "i", "m", "a", "l">>,
    Livestock, <<"L", "i", "v", "e", "S", "t", "o", "c", "k">>,
    <<"m", "a", "i", "z", "e">>, <<"s", "o", "i">>, <<"P", "E", "S">> }
\* Bodies of one word or of two words with a blank between them.
CategoryBodies ==
  {<<>>} \cup CategoryWords
    \cup {v \o <<" ">> \o w : v \in CategoryWords, w \in CategoryWords}

\* The recorder infers the category of a message body.
InferCategoryCall ==
  /\ pc = "idle"
  /\ \E body \in CategoryBodies :
    /\ pc = "idle"
    /\ route' = "categorize"
    /\ inp' = [body |-> body]
    /\ resp' = [status |-> 0, media |-> "return",
                json |-> [category |-> InferCategory(body)], xml |-> <<>>]
    /\ pc' = "done"
    /\ UNCHANGED <<cred, prompt, gw, outcome, reply, calls, stages, messages,
                   rows0, computed, sent, savefail, media, listing, users, tasks>>

\* --------------------------------- _compress_image_bytes called on its own

\* The sides of the images the compressor is given, around max_side.
CompressSides == {1, 2, 1600, 1601, 4000}
CompressInputs ==
  {[len |-> 1024, img |-> NoImg]}
    \cup {[len |-> 1024, img |-> Img(w, h)] : w \in CompressSides, h \in CompressSides}
\* The lengths of the JPEG the encoder writes.
JpegLengths == {1024, 4096}

\* _compress_image_bytes(img_bytes, max_side=1600, quality=82)
CompressCall ==
  /\ pc = "idle"
  /\ \E raw \in CompressInputs, pil \in BOOLEAN, n \in JpegLengths :
    /\ pc = "idle"
    /\ route' = "compress"
    /\ inp' = [raw |-> raw, pil |-> pil]
    /\ media' = [first |-> CompressImageBytes(raw, pil, MaxSide, n)]
    /\ pc' = "again"
    /\ UNCHANGED <<cred, prompt, gw, outcome, reply, resp, calls, stages,
                   messages, rows0, computed, sent, savefail, listing, users, tasks>>

\* The bytes it returned are given to it again.
CompressAgain ==
  /\ At("compress", "again")
  /\ \E n \in JpegLengths :
       media' = [first |-> media.first,
                 second |-> CompressImageBytes(media.first.bytes, inp.pil, MaxSide, n)]
  /\ pc' = "done"
  /\ UNCHANGED <<cred, route, inp, prompt, gw, outcome, reply, resp, calls,
                 stages, messages, rows0, computed, sent, savefail, listing, users, tasks>>

Next ==
  \/ Finish
  \/ CompressCall
  \/ CompressAgain
  \/ InferCategoryCall
  \/ WebhookReceive
  \/ WebhookPrompt
  \/ WebhookInfer
  \/ WebhookRender
  \/ RChatReceive
  \/ RChatText
  \/ RChatInfer
  \/ RChatRender
  \/ IdentifyReceive
  \/ IdentifyNormalize
  \/ IdentifyCompress
  \/ IdentifyPrompt
  \/ IdentifyInfer
  \/ IdentifyRender
  \/ MChatReceive
  \/ MChatRoute
  \/ MChatInfer
  \/ MIdentifyReceive
  \/ MIdentifyStore
  \/ MIdentifyInfer
  \/ SaveMessageCall
  \/ GetAllMessagesCall
  \/ AgentReceive
  \/ AgentInfer
  \/ AgentSave
  \/ AgentSend
  \/ AgentReturn

Spec == Init /\ [][Next]_vars

\* ------------------------------------------ app/db.py: get_or_create_user

Phones == {<<"+2348010000001">>, <<"+2348010000002">>}

\* The variables get_or_create_user leaves alone.
others == <<cred, pc, route, inp, prompt, gw, outcome, reply, resp, calls, stages,
            messages, rows0, computed, sent, savefail, media, listing>>

\* select(User).where(User.phone == phone), .first(): the first row, or None.
FirstUser(table, phone) ==
  IF \E i \in DOMAIN table : table[i].phone = phone
  THEN Some(table[CHOOSE i \in DOMAIN table :
                    /\ table[i].phone = phone
                    /\ \A j \in 1..(i - 1) : table[j].phone # phone])
  ELSE NoneV

\* Line 32: a coroutine enters get_or_create_user(phone) with a session of
\* its own.
GetOrCreateUserCall(t) ==
  /\ tasks[t].pc = "idle"
  /\ \E phone \in Phones :
       tasks' = [tasks EXCEPT ![t] = [pc |-> "select", phone |-> phone, user |-> NoneV]]
  /\ UNCHANGED <<users>>
  /\ UNCHANGED others

\* Lines 34-37: the awaited select; a row found is returned at once.
UserSelect(t) ==
  /\ tasks[t].pc = "select"
  /\ LET user == FirstUser(users, tasks[t].phone) IN
     tasks' = [tasks EXCEPT ![t] = [pc |-> IF user.some THEN "returned" ELSE "commit",
                                    phone |-> tasks[t].phone, user |-> user]]
  /\ UNCHANGED <<users>>
  /\ UNCHANGED others

\* Lines 38-40: the INSERT of the awaited commit.  phone is unique=True
\* (line 17): when a row with the phone is there by now the store refuses
\* the INSERT and commit() raises IntegrityError, which nothing catches.
UserCommit(t) ==
  /\ tasks[t].pc = "commit"
  /\ IF FirstUser(users, tasks[t].phone).some
     THEN /\ users' = users
          /\ tasks' = [tasks EXCEPT ![t] = [pc |-> "raised", phone |-> tasks[t].phone,
                                            user |-> NoneV]]
     ELSE /\ users' = Append(users, [id |-> Len(users) + 1, phone |-> tasks[t].phone])
          /\ tasks' = [tasks EXCEPT ![t] = [pc |-> "refresh", phone |-> tasks[t].phone,
                                            user |-> NoneV]]
  /\ UNCHANGED others

\* Lines 41-42: refresh() reads the row just written, id included.
UserRefresh(t) ==
  /\ tasks[t].pc = "refresh"
  /\ tasks' = [tasks EXCEPT ![t] = [pc |-> "returned", phone |-> tasks[t].phone,
                                    user |-> FirstUser(users, tasks[t].phone)]]
  /\ UNCHANGED <<users>>
  /\ UNCHANGED others

\* The caller has its user, or the exception; the coroutine is over.
UserDone(t) ==
  /\ tasks[t].pc \in {"returned", "raised"}
  /\ tasks' = [tasks EXCEPT ![t] = NoTask]
  /\ UNCHANGED <<users>>
  /\ UNCHANGED others

UserNext ==
  \E t \in Callers :
    \/ GetOrCreateUserCall(t)
    \/ UserSelect(t)
    \/ UserCommit(t)
    \/ UserRefresh(t)
    \/ UserDone(t)

\* Coroutines calling get_or_create_user, interleaved at every await.
UserSpec == Init /\ [][UserNext]_vars

\* The requests that go through the analysis pipeline: the WhatsApp webhook,
\* the router's /identify and handle_user_message.
PipelineReceive == WebhookReceive \/ IdentifyReceive \/ AgentReceive

\* A handler that has been entered runs to its return: each of its steps is
\* straight-line code or an awaited call that comes back.
PipelineStep ==
  \/ WebhookPrompt \/ WebhookInfer \/ WebhookRender
  \/ IdentifyNormalize \/ IdentifyCompress \/ IdentifyPrompt
  \/ IdentifyInfer \/ IdentifyRender
  \/ AgentInfer \/ AgentSave \/ AgentSend \/ AgentReturn

PipelineNext == PipelineReceive \/ PipelineStep \/ Finish

FairSpec == Init /\ [][PipelineNext]_vars /\ WF_vars(PipelineStep)

\* ------------------------------------------------------------------ claims

\* The text an XML parser reads back from escaped content: each entity
\* html.escape writes stands for its character; any other "&" is malformed.
RECURSIVE XmlUnescape(_)
XmlUnescape(s) ==
  LET rest(e) == XmlUnescape(SubSeq(s, Len(e) + 1, Len(s))) IN
  IF s = <<>> THEN <<>>
  ELSE IF Head(s) # "&" THEN <<Head(s)>> \o XmlUnescape(Tail(s))
  ELSE CASE IsPrefix(Amp, s) -> <<"&">> \o rest(Amp)
         [] IsPrefix(Lt, s) -> <<"<">> \o rest(Lt)
         [] IsPrefix(Gt, s) -> <<">">> \o rest(Gt)
         [] IsPrefix(Quot, s) -> <<"\"">> \o rest(Quot)
         [] IsPrefix(Apos, s) -> <<"'">> \o rest(Apos)
         [] OTHER -> <<"MALFORMED">>

Count(s, ch) == Cardinality({i \in 1..Len(s) : s[i] = ch})
\* What lies between the envelope's <Message> and </Message>.
MessageContent(xml) == SubSeq(xml, Len(XmlHead) + 1, Len(xml) - Len(XmlTail))
\* The envelope holds its own five tags and no other markup: the prolog,
\* Response, one Message, and their closing tags.
OneMessageEnvelope(xml) ==
  /\ Len(xml) >= Len(XmlHead) + Len(XmlTail)
  /\ SubSeq(xml, 1, Len(XmlHead)) = XmlHead
  /\ SubSeq(xml, Len(xml) - Len(XmlTail) + 1, Len(xml)) = XmlTail
  /\ \A ch \in {"<", ">", "\"", "'"} : Count(MessageContent(xml), ch) = 0
  /\ Count(xml, "<") = 5 /\ Count(xml, ">") = 5

\* C1: whatever form fields /webhook is given and whatever the inference call
\* does (answer, exception, no credential), the handler answers 200 with an
\* XML envelope holding exactly one Message element, in which none of
\* < > " ' appears and whose text, read back by an XML parser, is the reply.
C1_WebhookEscapedEnvelope ==
  (route = "webhook" /\ pc \notin {"idle"}) =>
    /\ ~gw.raised
    /\ pc = "done" =>
         /\ resp.status = 200
         /\ resp.media = "application/xml"
         /\ OneMessageEnvelope(resp.xml)
         /\ XmlUnescape(MessageContent(resp.xml)) = reply
         /\ computed = Some(reply)

\* C1 witness: an empty Body with no media, answered by a reply made of
\* markup characters.
C1_Witness ==
  /\ At("webhook", "done")
  /\ inp.Body = <<>> /\ inp.NumMedia = <<"0">> /\ inp.MediaUrl0 = NoneV
  /\ reply = <<"<", "&">>
  /\ resp.status = 200

\* The failures of the external call: an exception, a response without
\* choices, a response whose content is null.
GatewayFailed == outcome.kind \in {"raise", "nochoices", "null"}
CauseOf(o) == IF o.kind = "raise" THEN o.text
              ELSE IF o.kind = "nochoices" THEN IndexErrorText ELSE <<>>
GatewayRoutes == {"webhook", "r_chat", "r_identify", "agent"}
\* The reply text the caller of the request is handed.
DeliveredReply ==
  CASE route = "webhook" -> XmlUnescape(MessageContent(resp.xml))
    [] route = "agent" -> resp.json.value
    [] OTHER -> resp.json.reply

\* C2 as stated: after every failure of the external call the gateway
\* (_ai_text_only, _ai_vision, call_openai_system) has returned a non-empty
\* fallback string that embeds the error cause.
C2_FallbackEmbedsCause ==
  (route \in GatewayRoutes /\ GatewayFailed) =>
    /\ ~gw.raised
    /\ gw.ret.some
    /\ gw.ret.v # <<>>
    /\ Contains(gw.ret.v, CauseOf(outcome))

\* C2 amended: no gateway lets an exception out and the request ends with a
\* reply.  When the call raises (a response without choices included)
\* _ai_text_only and _ai_vision return "AI error: " followed by the cause; a
\* response with null content makes them return the empty string;
\* call_openai_system returns None after any failure, which
\* handle_user_message replaces by its fixed apology.
C2_GatewayNeverRaises ==
  (route \in GatewayRoutes /\ outcome.kind # "nocall") =>
    /\ ~gw.raised
    /\ (route # "agent" /\ outcome.kind \in {"raise", "nochoices"}) =>
         /\ gw.ret.some
         /\ IsPrefix(<<"AI error: ">>, gw.ret.v)
         /\ SubSeq(gw.ret.v, 2, Len(gw.ret.v)) = CauseOf(outcome)
    /\ (route # "agent" /\ outcome.kind = "null") => gw.ret = Some(<<>>)
    /\ (route = "agent" /\ GatewayFailed) => (gw.ret = NoneV /\ reply = Apology)
    /\ pc = "done" =>
         /\ resp.status \in {200, 0}
         /\ DeliveredReply = reply
         /\ computed = Some(reply)

\* C2 witness: /identify ends 200 with the fallback of a failed vision call.
C2_Witness ==
  /\ At("r_identify", "done")
  /\ outcome.kind = "raise"
  /\ resp.status = 200
  /\ resp.json.reply = AiError(outcome.text)

\* C3 as stated: without the credential every POST /chat (the router's and the
\* application's) is answered 200 with the one fixed disabled notice and no
\* call of the inference service.
C3_FixedDisabledNotice ==
  (~cred /\ pc = "done"
     /\ (At("m_chat", "done") \/ (At("r_chat", "done") /\ inp.field.kind = "str"))) =>
    /\ resp.status = 200
    /\ resp.json.reply = DisabledMessage
    /\ calls = 0

\* C3 amended: without the credential every POST /chat whose message is a
\* string is answered 200 and the inference service is not called; the
\* router's /chat replies with the same fixed disabled notice for every
\* message, the application's /chat with its keyword guide or with the generic
\* text that quotes the message.
C3_ChatWithoutCredential ==
  (~cred /\ route \in {"r_chat", "m_chat"}) =>
    /\ calls = 0
    /\ outcome = NoCall
    /\ ~gw.raised
    /\ (At("r_chat", "done") /\ inp.field.kind = "str") =>
         (resp.status = 200 /\ resp.json.reply = DisabledMessage)
    /\ At("m_chat", "done") =>
         /\ resp.status = 200
         /\ resp.json.reply \in
              {MushroomGuide, YellowGuide, GenericReply(inp.message)}
         /\ resp.json.reply = GenericReply(inp.message) <=>
              ~(\E k \in {Mushroom, Yellow, Leaf} : Contains(Lower(inp.message), k))

\* C3 witness: the router's /chat has answered a message without credential.
C3_Witness ==
  /\ ~cred
  /\ At("r_chat", "done")
  /\ inp.field = Str(<<" ", "h", "i">>)
  /\ resp.json.reply = DisabledMessage

IdentifyRoutes == {"r_identify", "m_identify"}
\* Whether a /identify request carries media, and the bytes it carries.
CarriesMedia ==
  CASE route = "r_identify" -> inp.upload.some
    [] route = "m_identify" ->
         inp.file.some \/ (inp.image_b64.some /\ inp.image_b64.pieces # <<>>)
    [] OTHER -> FALSE
CarriedBytes ==
  CASE route = "r_identify" -> inp.upload.u.data
    [] inp.file.some -> inp.file.u.data
    [] OTHER -> inp.image_b64.pieces[Len(inp.image_b64.pieces)].bytes
\* Neither the declared content type nor the filename gives an image/ type.
NoImageType ==
  /\ route = "r_identify" /\ inp.upload.some
  /\ ~IsPrefix(ImagePrefix, Strip(Lower(OrElse(inp.upload.u.content_type, <<>>))))
  /\ ~IsPrefix(ImagePrefix, OrElse(GuessType(OrElse(inp.upload.u.filename, <<>>)), <<>>))

\* C4: a POST /identify whose media is larger than the maximum is answered 413
\* and never reaches the inference service, whatever its content type,
\* filename or input shape.
C4_OversizedIs413 ==
  (route \in IdentifyRoutes /\ CarriesMedia
     /\ CarriedBytes.len > MaxUploadBytes) =>
    /\ calls = 0
    /\ pc = "done" => resp.status = 413

\* C5: a POST /identify with no media, an empty upload, or an upload with no
\* image/ type is answered with a 4xx status and the inference service is not
\* called.
C5_BadMediaIs4xx ==
  (route \in IdentifyRoutes
     /\ (~CarriesMedia \/ NoImageType
           \/ (CarriesMedia /\ (route = "r_identify" \/ inp.file.some)
                 /\ CarriedBytes.len = 0))) =>
    /\ calls = 0
    /\ pc = "done" => resp.status \in 400..499

\* C10: every 200 response of POST /identify is a JSON object with the fields
\* filename, reply and ok, so that ApiService.send_image reads the analysis
\* text from it.
C10_IdentifyReplyField ==
  (route \in IdentifyRoutes /\ pc = "done" /\ resp.status = 200) =>
    /\ DOMAIN resp.json = {"filename", "reply", "ok"}
    /\ SendImage(resp) = reply

RequestRoutes ==
  {"webhook", "r_chat", "r_identify", "m_chat", "m_identify", "agent"}
\* The rows the request in progress has added to the table.
Created == Len(messages) - rows0

\* C6 as stated: every processed request (handle_user_message, /webhook) has
\* created exactly one record by the time it ends.
C6_ExactlyOneRecord ==
  (route \in {"agent", "webhook"} /\ pc = "done") => Created = 1

C6_RecordInvariant ==
  /\ \A i \in 1..Len(messages), j \in 1..Len(messages) :
       i < j => messages[i].id < messages[j].id
  /\ route \in RequestRoutes =>
       /\ Created \in {0, 1}
       /\ route # "agent" => Created = 0
       /\ Created = 1 =>
            /\ computed.some
            /\ messages[Len(messages)].text = computed.v
            /\ \E i \in 1..Len(stages) : stages[i] \in {"INFERRED", "FALLBACK"}
       /\ (route = "agent" /\ pc \in {"send", "return", "done"}) =>
            (Created = 1 <=> ~savefail)

\* C6 amended: a request creates at most one record: handle_user_message
\* inserts one row, holding the analysis text, after that text is produced,
\* and none when the write fails; the handlers of webhook.py and main.py
\* create none.  No step changes or removes a stored row: the table only
\* grows, by rows of larger id.
C6_AtMostOneRecordAppendOnly ==
  [](C6_RecordInvariant) /\ [][IsPrefix(messages, messages')]_vars

\* C6 witness: handle_user_message has added a second row to the table.
C6_Witness ==
  /\ At("agent", "done")
  /\ Created = 1
  /\ Len(messages) = 2
  /\ messages[2].text = <<"a">>

\* C7: when save_message raises in handle_user_message, the text sent to the
\* user and the text returned are the reply computed before the write, and the
\* request goes on to its end.
C7_SaveFailureKeepsReply ==
  (route = "agent" /\ savefail) =>
    /\ reply = computed.v
    /\ sent.some => sent.body = computed.v
    /\ pc = "done" => resp.json.value = computed.v
    /\ pc # "done" => ENABLED (AgentSend \/ AgentReturn)

\* C7 witness: the write failed, the model's answer was sent and returned.
C7_Witness ==
  /\ At("agent", "done")
  /\ savefail
  /\ computed = Some(<<"a">>)
  /\ sent.some
  /\ resp.json.value = <<"a">>

Min(a, b) == IF a <= b THEN a ELSE b

\* C9: get_all_messages(limit), for a limit >= 0, returns the min(limit, n)
\* rows stored last out of the n stored, the newest first, in strictly
\* descending id.
C9_ListingMostRecentFirst ==
  At("list", "done") =>
    LET n == Len(messages)
        k == Min(inp.limit, n)
    IN /\ Len(listing) = k
       /\ \A i \in 1..k : listing[i] = messages[n - i + 1]
       /\ \A i \in 1..(k - 1) : listing[i].id > listing[i + 1].id

\* C9 witness: two rows are stored and a limit of 1 returns the newer one.
C9_Witness ==
  /\ At("list", "done")
  /\ Len(messages) = 2
  /\ inp.limit = 1
  /\ Len(listing) = 1
  /\ listing[1].id = 2
PipelineRoutes == {"webhook", "r_identify", "agent"}
\* The position of a stage in the sequence the specification gives.
StageRank(st) ==
  CASE st = "RECEIVED" -> 1
    [] st \in {"MEDIA_NORMALIZED", "SKIPPED"} -> 2
    [] st \in {"COMPRESSED", "PASSTHROUGH"} -> 3
    [] st = "PROMPT_BUILT" -> 4
    [] st \in {"INFERRED", "FALLBACK"} -> 5
    [] st = "RENDERED" -> 6
    [] st = "RECORDED" -> 7
\* The same, with the record written before the reply is rendered.
RecordFirstRank(st) ==
  CASE st = "RECORDED" -> 6
    [] st = "RENDERED" -> 7
    [] OTHER -> StageRank(st)
Rendered == \E i \in 1..Len(stages) : stages[i] = "RENDERED"
Recorded == \E i \in 1..Len(stages) : stages[i] = "RECORDED"

\* C8 as stated: the stages of a request occur in the order RECEIVED,
\* MEDIA_NORMALIZED or SKIPPED, COMPRESSED or PASSTHROUGH, PROMPT_BUILT,
\* INFERRED or FALLBACK, RENDERED, RECORDED: the reply is rendered before the
\* record is written.
C8_RenderedBeforeRecorded ==
  route \in PipelineRoutes =>
    \A i \in 1..Len(stages), j \in 1..Len(stages) :
      i < j => StageRank(stages[i]) < StageRank(stages[j])

C8_StageInvariant ==
  route \in PipelineRoutes =>
    /\ stages # <<>> /\ stages[1] = "RECEIVED"
    /\ \A i \in 1..Len(stages), j \in 1..Len(stages) :
         i < j => RecordFirstRank(stages[i]) < RecordFirstRank(stages[j])
    /\ route # "agent" => ~Recorded
    /\ pc = "done" => stages[Len(stages)] = "RENDERED"

\* C8 amended: the stages of a request occur in the order RECEIVED,
\* MEDIA_NORMALIZED or SKIPPED, COMPRESSED or PASSTHROUGH, PROMPT_BUILT,
\* INFERRED or FALLBACK, then RECORDED (handle_user_message only, and only
\* when the write succeeds), then RENDERED: the record is written before the
\* reply is rendered, the handlers of webhook.py record nothing, and every
\* request that is received reaches RENDERED.
C8_RecordedBeforeRendered ==
  [](C8_StageInvariant) /\ ((route \in PipelineRoutes) ~> Rendered)

\* C8 witness: handle_user_message has gone through every stage.
C8_Witness ==
  /\ At("agent", "done")
  /\ stages = <<"RECEIVED", "SKIPPED", "PASSTHROUGH", "PROMPT_BUILT",
                "INFERRED", "RECORDED", "RENDERED">>

\* Whether keyword k occurs in t whatever the casing of t's letters.
OccursAnyCase(t, k) ==
  \E i \in 0..(Len(t) - Len(k)) :
    \A j \in 1..Len(k) : LowerChar(t[i + j]) = k[j]
UpperChar(c) ==
  IF \E i \in 1..26 : LowerCase[i] = c
  THEN UpperCase[CHOOSE i \in 1..26 : LowerCase[i] = c]
  ELSE c
\* Letter-casings of a text: all upper, all lower, and every letter swapped.
Casings(t) ==
  { [i \in 1..Len(t) |-> UpperChar(t[i])],
    [i \in 1..Len(t) |-> LowerChar(t[i])],
    [i \in 1..Len(t) |-> IF UpperChar(t[i]) = t[i] THEN LowerChar(t[i])
                         ELSE UpperChar(t[i])] }

DegradedReply ==
  CASE route \in {"webhook", "r_chat", "r_identify"} ->
         IF outcome.kind = "null" THEN <<>> ELSE AiError(CauseOf(outcome))
    [] route = "agent" -> Apology
    [] route = "m_chat" -> GenericReply(inp.message)
    [] route = "m_identify" -> SimpleLabel(LabelName(inp))

Longest(img) == Max(img.w, img.h)

\* C13: for every decodable image of width and height >= 1 the image
\* _compress_image_bytes returns with max_side = 1600 (Pillow present) has
\* its longer edge <= 1600, very elongated images included.
C13_LongerEdgeBounded ==
  (route = "compress" /\ pc \in {"again", "done"} /\ inp.pil /\ inp.raw.img.ok
     /\ inp.raw.img.w >= 1 /\ inp.raw.img.h >= 1) =>
    Longest(media.first.bytes.img) <= MaxSide

\* C14: _compress_image_bytes applied to its own output returns an image of
\* the same dimensions and the same content type as the first output, and
\* an image whose longer edge is already <= 1600 keeps its dimensions the
\* first time.
C14_CompressIdempotent ==
  (route = "compress" /\ pc \in {"again", "done"}) =>
    /\ media.first.ct = ImageJpeg
    /\ (inp.raw.img.ok /\ Longest(inp.raw.img) <= MaxSide) =>
         media.first.bytes.img = inp.raw.img
    /\ ~inp.raw.img.ok => media.first.bytes = inp.raw
    /\ pc = "done" =>
         /\ media.second.bytes.img = media.first.bytes.img
         /\ media.second.ct = media.first.ct

\* C14 witness: a 4000 x 1600 image came out 1600 x 640 both times.
C14_Witness ==
  /\ At("compress", "done")
  /\ inp.pil
  /\ inp.raw.img = Img(4000, 1600)
  /\ media.first.bytes.img = Img(1600, 640)
  /\ media.second.bytes.img = Img(1600, 640)
  /\ media.second.reencoded

DataImagePrefix == <<"d", "a", "t", "a", ":">> \o ImagePrefix
\* The request's upload declares an image/ type or its filename guesses one.
YieldsImageType ==
  /\ inp.upload.some
  /\ \/ IsPrefix(ImagePrefix, Strip(Lower(OrElse(inp.upload.u.content_type, <<>>))))
     \/ IsPrefix(ImagePrefix, OrElse(GuessType(OrElse(inp.upload.u.filename, <<>>)), <<>>))
\* The request got as far as the call of _ai_vision.
ReachedVision == \E i \in DOMAIN stages : stages[i] = "PROMPT_BUILT"

\* C15: on every path through the router's /identify that reaches _ai_vision
\* the accepted content type starts with image/ and the data URL starts with
\* data:image/; a request whose media yields no image/ type never reaches
\* inference.
C15_OnlyImagesReachInference ==
  route = "r_identify" =>
    /\ pc \in {"compress", "prompt", "infer", "render"} =>
         IsPrefix(ImagePrefix, media.content_type)
    /\ ReachedVision =>
         /\ YieldsImageType
         /\ IsPrefix(ImagePrefix, media.content_type)
         /\ IsPrefix(ImagePrefix, media.comp_ct)
         /\ IsPrefix(DataImagePrefix, media.data_url.header)
    /\ ~YieldsImageType =>
         /\ calls = 0
         /\ outcome = NoCall
         /\ pc \in {"normalize", "done"}
         /\ pc = "done" => resp.status = 400

\* C15 witness: an upload declared text/plain and named leaf.PNG was
\* accepted as image/png and the model was called with a data:image/ URL.
C15_Witness ==
  /\ At("r_identify", "done")
  /\ inp.upload.some
  /\ calls = 1
  /\ inp.upload.u.content_type = Some(TextPlain)
  /\ media.content_type = ImagePng
  /\ calls = 1
  /\ IsPrefix(DataImagePrefix, media.data_url.header)

\* The guide the keywords of a message select, NoneV when none matches.
GuideFor(message) ==
  IF OccursAnyCase(message, Mushroom) THEN Some(MushroomGuide)
  ELSE IF OccursAnyCase(message, Yellow) \/ OccursAnyCase(message, Leaf)
       THEN Some(YellowGuide)
  ELSE NoneV

\* C16: in /chat of app/main.py a message containing "mushroom" in any
\* casing gets the mushroom guide, otherwise one containing "yellow" or
\* "leaf" gets the yellow-leaves guidance, otherwise inference or the generic
\* fallback answers; a keyword match never calls the inference service and
\* its reply is the same with or without a credential.
C16_KeywordPriority ==
  route = "m_chat" =>
    /\ GuideFor(inp.message).some =>
         /\ calls = 0
         /\ outcome = NoCall
         /\ pc \in {"route", "done"}
         /\ pc = "done" =>
              /\ reply = GuideFor(inp.message).v
              /\ resp = JsonResp(200, [reply |-> GuideFor(inp.message).v])
    /\ (~GuideFor(inp.message).some /\ pc = "done") =>
         /\ calls = (IF cred THEN 1 ELSE 0)
         /\ reply = (IF calls = 1 /\ outcome.kind = "answer"
                     THEN Strip(outcome.text) ELSE GenericReply(inp.message))
         /\ resp = JsonResp(200, [reply |-> reply])

\* C16 witness: "Mushroom leaf" got the mushroom guide with a credential
\* configured and no call made.
C16_Witness ==
  /\ At("m_chat", "done")
  /\ cred
  /\ OccursAnyCase(inp.message, Mushroom)
  /\ OccursAnyCase(inp.message, Leaf)
  /\ reply = MushroomGuide
  /\ calls = 0

RowsOf(phone) == {i \in DOMAIN users : users[i].phone = phone}

\* C17: whatever the interleaving of the get_or_create_user calls with one
\* phone, no call ends in an error, the calls that returned have the same
\* user id and that phone, and the table holds exactly one row for it.
C17_ConcurrentCallsAgree ==
  /\ \A t \in Callers : tasks[t].pc # "raised"
  /\ \A t \in Callers : tasks[t].pc = "returned" =>
       /\ tasks[t].user.some
       /\ tasks[t].user.v.phone = tasks[t].phone
       /\ Cardinality(RowsOf(tasks[t].phone)) = 1
  /\ \A t, u \in Callers :
       (tasks[t].pc = "returned" /\ tasks[u].pc = "returned"
          /\ tasks[t].phone = tasks[u].phone) =>
         tasks[t].user.v.id = tasks[u].user.v.id
====
